---- MODULE Spec2Model ----
(***************************************************************************)
(* Model of the AudioGridder server control plane                          *)
(* (Server/Source/Server.cpp): startup recovery from the dead-man's file,  *)
(* the plugin scan with its out-of-process probes, the exclusion policy,   *)
(* the accept loop with its worker registry, and shutdown.                 *)
(*                                                                         *)
(* Strings that the code inspects character by character (plugin names)    *)
(* are sequences of one-character strings, so that containsIgnoreCase and  *)
(* compare are computed, not assumed.                                      *)
(***************************************************************************)
EXTENDS Integers, Sequences, FiniteSets, TLC

(***************************************************************************)
(* Characters and juce::String operations                                  *)
(***************************************************************************)
UpperChars == <<"A","B","C","D","E","F","G","H","I","J","K","L","M",
                "N","O","P","Q","R","S","T","U","V","W","X","Y","Z">>

LowerChars == <<"a","b","c","d","e","f","g","h","i","j","k","l","m",
                "n","o","p","q","r","s","t","u","v","w","x","y","z">>

\* the character codes of the letters: upper case sorts before lower case
LetterCode ==
    [c \in {UpperChars[i] : i \in 1..26} \cup {LowerChars[i] : i \in 1..26} |->
        IF \E i \in 1..26 : UpperChars[i] = c
        THEN 64 + (CHOOSE i \in 1..26 : UpperChars[i] = c)
        ELSE 96 + (CHOOSE i \in 1..26 : LowerChars[i] = c)]

CharCode(c) == IF c \in DOMAIN LetterCode THEN LetterCode[c] ELSE 32

\* CharacterFunctions::toLowerCase on the letters
LowerOf ==
    [c \in {UpperChars[i] : i \in 1..26} |->
        LowerChars[CHOOSE i \in 1..26 : UpperChars[i] = c]]

toLowerChar(c) == IF c \in DOMAIN LowerOf THEN LowerOf[c] ELSE c

toLowerCase(s) == [i \in 1..Len(s) |-> toLowerChar(s[i])]

\* String::contains
contains(s, t) ==
    \E i \in 1..(Len(s) - Len(t) + 1) : SubSeq(s, i, i + Len(t) - 1) = t

\* String::containsIgnoreCase
containsIgnoreCase(s, t) == contains(toLowerCase(s), toLowerCase(t))

\* String::compare: <0, 0 or >0, by character code, a prefix sorting first
RECURSIVE compare(_, _)
compare(a, b) ==
    IF a = <<>> /\ b = <<>> THEN 0
    ELSE IF a = <<>> THEN -1
    ELSE IF b = <<>> THEN 1
    ELSE IF CharCode(Head(a)) # CharCode(Head(b))
         THEN CharCode(Head(a)) - CharCode(Head(b))
    ELSE compare(Tail(a), Tail(b))

\* String::compareIgnoreCase, the order KnownPluginList::sortAlphabetically uses
compareIgnoreCase(a, b) == compare(toLowerCase(a), toLowerCase(b))

(***************************************************************************)
(* Names                                                                   *)
(***************************************************************************)
AGridder     == <<"A","G","r","i","d","d","e","r">>
AudioGridder == <<"A","u","d","i","o","G","r","i","d","d","e","r">>

nReverb     == <<"R","e","v","e","r","b">>
nreverb     == <<"r","e","v","e","r","b">>
nDelay      == <<"D","e","l","a","y">>
nOld        == <<"O","l","d">>
nAgridderFx == <<"a","g","r","i","d","d","e","r","F","x">>
nMyAudioGridder == <<"M","y","A","U","D","I","O","g","r","i","d","d","e","r">>
nGridder    == <<"G","r","i","d","d","e","r">>

(***************************************************************************)
(* The installed plugin binaries (the file system the format drivers       *)
(* search) and the format drivers                                          *)
(***************************************************************************)
fReverb == [file |-> nReverb,     ext |-> "vst3"]
fHost   == [file |-> nAgridderFx, ext |-> "vst3"]
fDelay  == [file |-> nDelay,      ext |-> "dll"]

\* modification time of every installed binary
fileModTime == [f \in {fReverb, fHost, fDelay} |-> 1]

\* directory order of the default plugin locations
InstalledFiles == <<fReverb, fHost, fDelay>>

FileSet == {InstalledFiles[i] : i \in 1..Len(InstalledFiles)}

FormatExt(fmt) == IF fmt = "VST3" THEN "vst3" ELSE "dll"

\* fmt->searchPathsForPlugins(fmt->getDefaultLocationsToSearch(), true)
searchPathsForPlugins(fmt) ==
    SelectSeq(InstalledFiles, LAMBDA f : f.ext = FormatExt(fmt))

\* fmt->getNameOfPluginFromIdentifier(fileOrId): the file name without extension
getNameOfPluginFromIdentifier(id) == id.file

\* fmt->pluginNeedsRescanning(desc): the file changed since it was described
pluginNeedsRescanning(desc, modTime) ==
    modTime[desc.fileOrIdentifier] # desc.lastFileModTime

\* the description a format driver produces for a loadable binary
describePlugin(id, fmt, modTime) ==
    [fileOrIdentifier |-> id, name |-> id.file, descriptiveName |-> id.file,
     pluginFormatName |-> fmt, lastFileModTime |-> modTime[id]]

(***************************************************************************)
(* juce::KnownPluginList, as Server.cpp uses it                            *)
(***************************************************************************)
EmptyPluginList == [types |-> <<>>, blacklist |-> {}]

hasTypeForFile(list, id) ==
    \E i \in 1..Len(list.types) : list.types[i].fileOrIdentifier = id

getTypeForFile(list, id) ==
    list.types[CHOOSE i \in 1..Len(list.types) : list.types[i].fileOrIdentifier = id]

\* addType: a duplicate is replaced in place, a new type goes to the front
addType(list, d) ==
    IF hasTypeForFile(list, d.fileOrIdentifier)
    THEN [list EXCEPT !.types =
            [i \in 1..Len(@) |->
                IF @[i].fileOrIdentifier = d.fileOrIdentifier THEN d ELSE @[i]]]
    ELSE [list EXCEPT !.types = <<d>> \o @]

addToBlacklist(list, id) == [list EXCEPT !.blacklist = @ \cup {id}]

RECURSIVE addLines(_, _)
addLines(list, lines) ==
    IF lines = <<>> THEN list
    ELSE addLines(addToBlacklist(list, Head(lines)), Tail(lines))

\* createXml: the types in list order, then the blacklisted identifiers
createXml(list) == [types |-> list.types, blacklist |-> list.blacklist]

RECURSIVE addTypes(_, _)
addTypes(list, ds) ==
    IF ds = <<>> THEN list ELSE addTypes(addType(list, Head(ds)), Tail(ds))

\* recreateFromXml: clear(), clearBlacklistedFiles(), then the document's entries
recreateFromXml(xml) ==
    addTypes([types |-> <<>>, blacklist |-> xml.blacklist], xml.types)

\* insertion of d into a sequence sorted by name, after its equals (stable)
RECURSIVE insertSorted(_, _)
insertSorted(ds, d) ==
    IF ds = <<>> THEN <<d>>
    ELSE IF compareIgnoreCase(d.name, Head(ds).name) < 0 THEN <<d>> \o ds
    ELSE <<Head(ds)>> \o insertSorted(Tail(ds), d)

RECURSIVE sortTypes(_, _)
sortTypes(done, rest) ==
    IF rest = <<>> THEN done
    ELSE sortTypes(insertSorted(done, Head(rest)), Tail(rest))

\* m_pluginlist.sort(KnownPluginList::sortAlphabetically, true)
sortAlphabetically(list) == [list EXCEPT !.types = sortTypes(<<>>, @)]

isSorted(ds) ==
    \A i \in 1..(Len(ds) - 1) : compareIgnoreCase(ds[i].name, ds[i + 1].name) <= 0

(***************************************************************************)
(* Server::shouldExclude(name, include) over the exclusion set m_pluginexclude *)
(***************************************************************************)
isHostName(name) ==
    containsIgnoreCase(name, AGridder) \/ containsIgnoreCase(name, AudioGridder)

\* a slip that would let an include-list override the self-exclusion
shouldExclude_includeFirst(name, include, exclude) ==
    IF Len(include) > 0
    THEN ~(\E i \in 1..Len(include) : compare(name, include[i]) = 0)
    ELSE isHostName(name) \/ (\E excl \in exclude : compare(name, excl) = 0)

\* a slip that would match include entries ignoring case
shouldExclude_ignoreCase(name, include, exclude) ==
    IF isHostName(name) THEN TRUE
    ELSE IF Len(include) > 0
    THEN ~(\E i \in 1..Len(include) : compareIgnoreCase(name, include[i]) = 0)
    ELSE \E excl \in exclude : compare(name, excl) = 0

shouldExclude(name, include, exclude) ==
    IF isHostName(name) THEN TRUE
    ELSE IF Len(include) > 0
    THEN ~(\E i \in 1..Len(include) : compare(name, include[i]) = 0)
    ELSE \E excl \in exclude : compare(name, excl) = 0

(***************************************************************************)
(* Bounds of the model                                                     *)
(***************************************************************************)
\* process restarts (a crash or a stop of the server, then a new start)
MaxRestarts == 1
\* addPlugins calls per process lifetime
MaxAdds == 1
\* client connections per process lifetime
MaxClients == 2

(***************************************************************************)
(* State                                                                   *)
(***************************************************************************)
VARIABLES
    cfgFile,         \* SERVER_CONFIG_FILE
    knownFile,       \* KNOWN_PLUGINS_FILE
    deadman,         \* DEAD_MANS_FILE
    m_enableVST, m_enableVST2, m_pluginexclude, m_pluginlist,
    pc,              \* position of the server thread and of the addPlugins thread
    scan,            \* locals of scanForPlugins, per thread
    proc,            \* the probe child each scanning thread waits for
    lastResult,      \* what fn was called with: "true", "false", or "none" before the call
    m_masterSocket,  \* "none", "listening", "closed"
    shouldExit,      \* Thread::threadShouldExit of the server thread
    m_workers,       \* the registry: worker ids in vector order
    running,         \* isThreadRunning of each worker created so far
    asked,           \* workers whose shutdown() was called
    deadWorkers,     \* lists handed to MessageManager::callAsync, not yet cleared
    destroyed,       \* workers whose destructor has run
    sd,              \* Server::shutdown in progress: its position in m_workers
    crashed,         \* the process died on an invalid memory access
    query,           \* the last shouldExclude call from outside a scan
    \* history, for stating the properties
    restarts, adds, clients,
    drained,         \* identifiers the last loadConfig found in the dead-man's file
    launched,        \* per thread: identifiers probed by its current scan pass
    exclAtBegin,     \* per thread: m_pluginexclude when its pass began
    runSaved,        \* what run() has persisted since the startup scan
    killed,          \* identifiers whose probe child was killed on timeout
    startFailed,     \* per thread: identifiers whose probe child could not be started
    prevPass         \* what the previous process lifetime ended with, if it ended cleanly

diskVars   == <<cfgFile, knownFile, deadman>>
serverVars == <<m_enableVST, m_enableVST2, m_pluginexclude, m_pluginlist>>
scanVars   == <<pc, scan, proc, lastResult>>
netVars    == <<m_masterSocket, shouldExit, m_workers, running, asked,
                deadWorkers, destroyed, sd, crashed>>
histVars   == <<restarts, adds, clients, drained, launched, exclAtBegin,
                runSaved, killed, startFailed, prevPass>>
vars == <<diskVars, serverVars, scanVars, netVars, histVars, query>>

Threads == {"run", "add"}

NoFile == [exists |-> FALSE]
NoProc == [pc |-> "none"]
NoScan == [include |-> <<>>, neverSeenList |-> {}, fmts |-> <<>>, fi |-> 1, ii |-> 1]
NoQuery == [made |-> FALSE]
NoShutdown == [pc |-> "idle", i |-> 1, end |-> 0, w |-> 0, stale |-> FALSE]
NoPrevPass == [complete |-> FALSE]

\* compiled-in defaults of Server.hpp for the format flags
DefaultEnableVST  == TRUE
DefaultEnableVST2 == TRUE

(***************************************************************************)
(* Files                                                                   *)
(***************************************************************************)
\* the document saveConfig writes (the fields the scan depends on)
configJson(vst, vst2, exclude) ==
    [exists |-> TRUE, VST |-> vst, VST2 |-> vst2, ExcludePlugins |-> exclude]

\* saveKnownPluginList(plist): the file holds plist.createXml()
knownPluginsXml(plist) ==
    [exists |-> TRUE, types |-> createXml(plist).types,
     blacklist |-> createXml(plist).blacklist]

\* loadKnownPluginList(plist): recreateFromXml when the file exists, else untouched
loadKnownPluginList(plist, file) ==
    IF file.exists THEN recreateFromXml(file) ELSE plist

\* deadmanfile.readLines(lines)
readLines(file) == IF file.exists THEN file.lines ELSE <<>>

seqToSet(q) == {q[i] : i \in 1..Len(q)}

\* StringArray::removeString
removeString(q, x) == SelectSeq(q, LAMBDA y : y # x)

(***************************************************************************)
(* Initial states: the files a previous run may have left, no process yet  *)
(***************************************************************************)
InitConfigs ==
    {NoFile, configJson(TRUE, TRUE, {nReverb, nOld}), configJson(TRUE, FALSE, {}),
     configJson(FALSE, FALSE, {nReverb, nOld})}

InitSentinels == {NoFile, [exists |-> TRUE, lines |-> <<fReverb>>],
                  [exists |-> TRUE, lines |-> <<fDelay, fReverb>>]}

\* a description of Reverb made before the binary was last replaced
staleReverb ==
    [fileOrIdentifier |-> fReverb, name |-> nReverb, descriptiveName |-> nReverb,
     pluginFormatName |-> "VST3", lastFileModTime |-> 0]

BasicCatalogs == {NoFile, knownPluginsXml(EmptyPluginList),
                  knownPluginsXml([types |-> <<staleReverb>>, blacklist |-> {}])}

\* the catalog file two probe children leave: Reverb described first, then Delay
twoPlugins ==
    addType(addType(EmptyPluginList, describePlugin(fReverb, "VST3", fileModTime)),
            describePlugin(fDelay, "VST", fileModTime))

InitCatalogs == BasicCatalogs \cup {knownPluginsXml(twoPlugins)}

IncludeChoices == {<<nDelay>>, <<nAgridderFx, nReverb>>}

InitMemory ==
    /\ m_enableVST = DefaultEnableVST
    /\ m_enableVST2 = DefaultEnableVST2
    /\ m_pluginexclude = {}
    /\ m_pluginlist = EmptyPluginList
    /\ pc = [t \in Threads |-> IF t = "run" THEN "construct" ELSE "idle"]
    /\ scan = [t \in Threads |-> NoScan]
    /\ proc = [t \in Threads |-> NoProc]
    /\ lastResult = "none"
    /\ m_masterSocket = "none"
    /\ shouldExit = FALSE
    /\ m_workers = <<>>
    /\ running = <<>>
    /\ asked = {}
    /\ destroyed = {}
    /\ deadWorkers = {}
    /\ sd = NoShutdown
    /\ crashed = FALSE
    /\ query = NoQuery
    /\ adds = 0
    /\ clients = 0
    /\ drained = {}
    /\ launched = [t \in Threads |-> {}]
    /\ exclAtBegin = [t \in Threads |-> {}]
    /\ runSaved = {}
    /\ killed = {}
    /\ startFailed = [t \in Threads |-> {}]

Init ==
    /\ cfgFile \in InitConfigs
    /\ knownFile \in InitCatalogs
    /\ deadman \in InitSentinels
    /\ restarts = 0
    /\ prevPass = NoPrevPass
    /\ InitMemory

(***************************************************************************)
(* Server::Server -> loadConfig                                            *)
(***************************************************************************)
\* a drain that forgets the last line of the file
drainDeadMansFile_dropLast(list, lines) ==
    IF lines = <<>> THEN list ELSE addLines(list, SubSeq(lines, 1, Len(lines) - 1))

\* lines 58-62: every line of the dead-man's file goes to the blacklist
drainDeadMansFile(list, lines) == addLines(list, lines)

\* a run() that opens the listener before anything else
runEntry_listenFirst == "listen"

\* line 278: the first thing the server thread does is the startup scan
runEntry == "scan_begin"

LoadConfig ==
    /\ pc["run"] = "construct"
    /\ LET vst  == IF cfgFile.exists THEN cfgFile.VST ELSE m_enableVST
           vst2 == IF cfgFile.exists THEN cfgFile.VST2 ELSE m_enableVST2
           excl == IF cfgFile.exists
                   THEN m_pluginexclude \cup cfgFile.ExcludePlugins
                   ELSE m_pluginexclude
       IN /\ m_enableVST' = vst
          /\ m_enableVST2' = vst2
          /\ m_pluginexclude' = excl
          /\ IF deadman.exists
             THEN /\ m_pluginlist' = drainDeadMansFile(m_pluginlist, readLines(deadman))
                  /\ deadman' = NoFile
                  /\ cfgFile' = configJson(vst, vst2, excl)
                  /\ drained' = seqToSet(readLines(deadman))
             ELSE /\ UNCHANGED <<m_pluginlist, deadman, cfgFile>>
                  /\ drained' = {}
    /\ pc' = [pc EXCEPT !["run"] = runEntry]
    /\ UNCHANGED <<knownFile, scan, proc, lastResult, netVars, query,
                   restarts, adds, clients, launched, exclAtBegin, runSaved, killed,
                   startFailed, prevPass>>

(***************************************************************************)
(* Server::scanForPlugins(include), lines 232-275                          *)
(***************************************************************************)
\* lines 234-245 without JUCE_MAC: the enabled format drivers, VST3 before VST
\* a format list that always contains VST2
enabledFormats_vst2Always(vst, vst2) ==
    (IF vst THEN <<"VST3">> ELSE <<>>) \o <<"VST">>

enabledFormats(vst, vst2) ==
    (IF vst THEN <<"VST3">> ELSE <<>>) \o (IF vst2 THEN <<"VST">> ELSE <<>>)

\* the next candidate at or after (fi, ii) of the two nested loops, lines 251-253
RECURSIVE nextPosition(_, _, _)
nextPosition(fmts, fi, ii) ==
    IF fi > Len(fmts) THEN [fi |-> fi, ii |-> 1]
    ELSE IF ii > Len(searchPathsForPlugins(fmts[fi])) THEN nextPosition(fmts, fi + 1, 1)
    ELSE [fi |-> fi, ii |-> ii]

currentFormat(s) == s.fmts[s.fi]
currentFile(s) == searchPathsForPlugins(s.fmts[s.fi])[s.ii]

\* every name an enabled driver enumerates
discoveredNames(fmts) ==
    {getNameOfPluginFromIdentifier(f) :
        f \in {g \in FileSet : \E i \in 1..Len(fmts) : g.ext = FormatExt(fmts[i])}}

\* a condition that forgets to look at the blacklist
needsProbe_ignoreBlacklist(list, id, name, include, exclude, modTime) ==
    /\ \/ ~hasTypeForFile(list, id)
       \/ pluginNeedsRescanning(getTypeForFile(list, id), modTime)
    /\ ~shouldExclude(name, include, exclude)

\* lines 256-257: the condition under which a probe child is launched
needsProbe(list, id, name, include, exclude, modTime) ==
    /\ \/ ~hasTypeForFile(list, id)
       \/ pluginNeedsRescanning(getTypeForFile(list, id), modTime)
    /\ id \notin list.blacklist
    /\ ~shouldExclude(name, include, exclude)

\* lines 247-249
ScanBegin(t) ==
    /\ pc[t] = "scan_begin"
    /\ ~crashed
    /\ LET fmts == enabledFormats(m_enableVST, m_enableVST2)
           np   == nextPosition(fmts, 1, 1)
       IN /\ scan' = [scan EXCEPT ![t] = [include |-> scan[t].include,
                                          neverSeenList |-> m_pluginexclude,
                                          fmts |-> fmts, fi |-> np.fi, ii |-> np.ii]]
          /\ pc' = [pc EXCEPT ![t] = IF np.fi > Len(fmts) THEN "scan_end" ELSE "scan_loop"]
    /\ m_pluginlist' = loadKnownPluginList(m_pluginlist, knownFile)
    /\ launched' = [launched EXCEPT ![t] = {}]
    /\ startFailed' = [startFailed EXCEPT ![t] = {}]
    /\ exclAtBegin' = [exclAtBegin EXCEPT ![t] = m_pluginexclude]
    /\ UNCHANGED <<diskVars, m_enableVST, m_enableVST2, m_pluginexclude, proc, lastResult,
                   netVars, query, restarts, adds, clients, drained, runSaved, killed,
                   prevPass>>

\* line 264 and the loop increments: the name was seen, on to the next candidate
advance(s) ==
    LET np == nextPosition(s.fmts, s.fi, s.ii + 1)
    IN [s EXCEPT !.neverSeenList = @ \ {getNameOfPluginFromIdentifier(currentFile(s))},
                 !.fi = np.fi, !.ii = np.ii]

pcAfter(s) == IF s.fi > Len(s.fmts) THEN "scan_end" ELSE "scan_loop"

\* the child process scanNextPlugin starts: <exe> -scan id|fmt
startedProc(id, fmt) ==
    [pc |-> "load", id |-> id, fmt |-> fmt, plist |-> EmptyPluginList,
     crashedPlugins |-> <<>>, success |-> TRUE, exitCode |-> 0]

\* lines 254-263 with scanNextPlugin up to proc.start: probe, or skip
ScanCandidate(t) ==
    /\ pc[t] = "scan_loop"
    /\ ~crashed
    /\ LET s    == scan[t]
           id   == currentFile(s)
           name == getNameOfPluginFromIdentifier(id)
       IN IF needsProbe(m_pluginlist, id, name, s.include, m_pluginexclude, fileModTime)
          THEN \/ /\ proc' = [proc EXCEPT ![t] = startedProc(id, currentFormat(s))]
                  /\ pc' = [pc EXCEPT ![t] = "wait"]
                  /\ launched' = [launched EXCEPT ![t] = @ \cup {id}]
                  /\ UNCHANGED <<scan, startFailed>>
               \/ \* proc.start failed: "failed to start scan process"
                  /\ scan' = [scan EXCEPT ![t] = advance(s)]
                  /\ pc' = [pc EXCEPT ![t] = pcAfter(advance(s))]
                  /\ startFailed' = [startFailed EXCEPT ![t] = @ \cup {id}]
                  /\ UNCHANGED <<proc, launched>>
          ELSE /\ scan' = [scan EXCEPT ![t] = advance(s)]
               /\ pc' = [pc EXCEPT ![t] = pcAfter(advance(s))]
               /\ UNCHANGED <<proc, launched, startFailed>>
    /\ UNCHANGED <<diskVars, serverVars, lastResult, netVars, query, restarts, adds,
                   clients, drained, exclAtBegin, runSaved, killed, prevPass>>

procRunning(p) == p.pc \in {"load", "pedal", "probe", "hung", "save", "exit"}

\* lines 212-221, the child ended within the wait: its exit code is logged
ProbeFinished(t) ==
    /\ pc[t] = "wait"
    /\ ~crashed
    /\ proc[t].pc = "exited"
    /\ proc' = [proc EXCEPT ![t] = NoProc]
    /\ scan' = [scan EXCEPT ![t] = advance(scan[t])]
    /\ pc' = [pc EXCEPT ![t] = pcAfter(advance(scan[t]))]
    /\ UNCHANGED <<diskVars, serverVars, lastResult, netVars, query, histVars>>

\* what the timeout branch does to the catalog in memory: nothing
\* (a variant that blacklists the identifier itself)
catalogAfterTimeout_blacklist(list, id) == addToBlacklist(list, id)

catalogAfterTimeout(list, id) == list

\* lines 213-215, the child is still running after 30 s: it is killed
ProbeTimeout(t) ==
    /\ pc[t] = "wait"
    /\ ~crashed
    /\ procRunning(proc[t])
    /\ proc' = [proc EXCEPT ![t] = NoProc]
    /\ m_pluginlist' = catalogAfterTimeout(m_pluginlist, proc[t].id)
    /\ scan' = [scan EXCEPT ![t] = advance(scan[t])]
    /\ pc' = [pc EXCEPT ![t] = pcAfter(advance(scan[t]))]
    /\ killed' = killed \cup {proc[t].id}
    /\ UNCHANGED <<diskVars, m_enableVST, m_enableVST2, m_pluginexclude, lastResult,
                   netVars, query, restarts, adds, clients, drained, launched,
                   exclAtBegin, runSaved, startFailed, prevPass>>

\* a pruning with the test inverted: it keeps the names that were never seen
pruneExclude_inverted(exclude, neverSeen) == exclude \cap neverSeen

\* lines 271-273
pruneExclude(exclude, neverSeen) == exclude \ neverSeen

\* lines 268-273
ScanEnd(t) ==
    /\ pc[t] = "scan_end"
    /\ ~crashed
    /\ m_pluginlist' = sortAlphabetically(loadKnownPluginList(m_pluginlist, knownFile))
    /\ m_pluginexclude' = pruneExclude(m_pluginexclude, scan[t].neverSeenList)
    /\ pc' = [pc EXCEPT ![t] = "save_config"]
    /\ scan' = [scan EXCEPT ![t] = [NoScan EXCEPT !.include = scan[t].include]]
    /\ UNCHANGED <<diskVars, m_enableVST, m_enableVST2, proc, lastResult, netVars,
                   query, histVars>>

(***************************************************************************)
(* The probe child: Server::scanPlugin(id, format), lines 174-201, with    *)
(* the juce::PluginDirectoryScanner it drives                              *)
(***************************************************************************)
\* KnownPluginList::isListingUpToDate
isListingUpToDate(list, id, modTime) ==
    /\ hasTypeForFile(list, id)
    /\ ~pluginNeedsRescanning(getTypeForFile(list, id), modTime)

\* lines 187-192: a fresh list is loaded from the catalog file; constructing the
\* scanner and setFilesOrIdentifiersToScan blacklist what the dead-man's file holds
ChildLoad(t) ==
    /\ proc[t].pc = "load"
    /\ proc' = [proc EXCEPT ![t].pc = "pedal",
                            ![t].plist = addLines(loadKnownPluginList(EmptyPluginList, knownFile),
                                                  readLines(deadman))]
    /\ UNCHANGED <<diskVars, serverVars, pc, scan, lastResult, netVars, query, histVars>>

\* scanNextFile before the binary is touched: the identifier goes to the end of
\* the dead-man's file, unless the listing is up to date
ChildPedal(t) ==
    /\ proc[t].pc = "pedal"
    /\ IF isListingUpToDate(proc[t].plist, proc[t].id, fileModTime)
       THEN /\ proc' = [proc EXCEPT ![t].pc = "save"]
            /\ UNCHANGED deadman
       ELSE LET cp == Append(removeString(readLines(deadman), proc[t].id), proc[t].id)
            IN /\ proc' = [proc EXCEPT ![t].pc = "probe", ![t].crashedPlugins = cp]
               /\ deadman' = [exists |-> TRUE, lines |-> cp]
    /\ UNCHANGED <<cfgFile, knownFile, serverVars, pc, scan, lastResult,
                   netVars, query, histVars>>

ProbeOutcomes == {"ok", "invalid", "crash", "hang"}

\* scanAndAddFile and the rest of scanNextFile, then lines 195-198
ChildProbe(t, outcome) ==
    /\ proc[t].pc = "probe"
    /\ LET p  == proc[t]
           bl == p.id \in p.plist.blacklist
           \* a blacklisted file is not loaded at all
           out == IF bl THEN "invalid" ELSE outcome
           cp == removeString(p.crashedPlugins, p.id)
       IN CASE out = "crash" ->
                 \* the child dies inside the plugin: nothing more is written
                 /\ proc' = [proc EXCEPT ![t].pc = "exited", ![t].exitCode = 139,
                                         ![t].success = FALSE]
                 /\ UNCHANGED deadman
            [] out = "hang" ->
                 /\ proc' = [proc EXCEPT ![t].pc = "hung"]
                 /\ UNCHANGED deadman
            [] out = "ok" ->
                 /\ proc' = [proc EXCEPT ![t].pc = "save", ![t].crashedPlugins = cp,
                                         ![t].plist = addType(p.plist,
                                               describePlugin(p.id, p.fmt, fileModTime))]
                 /\ deadman' = [exists |-> TRUE, lines |-> cp]
            [] OTHER ->
                 \* nothing found: a failed file unless it is blacklisted already
                 /\ proc' = [proc EXCEPT ![t].pc = "save", ![t].crashedPlugins = cp,
                                         ![t].plist = addToBlacklist(p.plist, p.id),
                                         ![t].success = bl]
                 /\ deadman' = [exists |-> TRUE, lines |-> cp]
    /\ UNCHANGED <<cfgFile, knownFile, serverVars, pc, scan, lastResult,
                   netVars, query, histVars>>

\* line 199
ChildSave(t) ==
    /\ proc[t].pc = "save"
    /\ knownFile' = knownPluginsXml(proc[t].plist)
    /\ proc' = [proc EXCEPT ![t].pc = "exit"]
    /\ UNCHANGED <<cfgFile, deadman, serverVars, pc, scan, lastResult,
                   netVars, query, histVars>>

\* line 200 and the end of the process
ChildExit(t) ==
    /\ proc[t].pc = "exit"
    /\ proc' = [proc EXCEPT ![t].pc = "exited",
                            ![t].exitCode = IF proc[t].success THEN 0 ELSE 1]
    /\ UNCHANGED <<diskVars, serverVars, pc, scan, lastResult, netVars, query, histVars>>

(***************************************************************************)
(* saveConfig and saveKnownPluginList after a scan: run, lines 279-280,    *)
(* and the addPlugins thread, lines 153-154                                *)
(***************************************************************************)
SaveConfig(t) ==
    /\ pc[t] = "save_config"
    /\ ~crashed
    /\ cfgFile' = configJson(m_enableVST, m_enableVST2, m_pluginexclude)
    /\ pc' = [pc EXCEPT ![t] = "save_list"]
    /\ runSaved' = IF t = "run" THEN runSaved \cup {"config"} ELSE runSaved
    /\ UNCHANGED <<knownFile, deadman, serverVars, scan, proc, lastResult,
                   netVars, query, restarts, adds, clients, drained, launched,
                   exclAtBegin, killed, startFailed, prevPass>>

SaveKnownPluginList(t) ==
    /\ pc[t] = "save_list"
    /\ ~crashed
    /\ knownFile' = knownPluginsXml(m_pluginlist)
    /\ pc' = [pc EXCEPT ![t] = IF t = "run" THEN "listen" ELSE "callback"]
    /\ runSaved' = IF t = "run" THEN runSaved \cup {"catalog"} ELSE runSaved
    /\ UNCHANGED <<cfgFile, deadman, serverVars, scan, proc, lastResult,
                   netVars, query, restarts, adds, clients, drained, launched,
                   exclAtBegin, killed, startFailed, prevPass>>

(***************************************************************************)
(* Server::addPlugins(names, fn), lines 150-172                            *)
(***************************************************************************)
\* line 151: a detached thread is started, whatever else is running
AddPlugins(names) ==
    /\ pc["run"] # "construct"
    /\ pc["add"] = "idle"
    /\ ~crashed
    /\ adds < MaxAdds
    /\ adds' = adds + 1
    /\ pc' = [pc EXCEPT !["add"] = "scan_begin"]
    /\ scan' = [scan EXCEPT !["add"] = [NoScan EXCEPT !.include = names]]
    /\ lastResult' = "none"
    /\ UNCHANGED <<diskVars, serverVars, proc, netVars, query, restarts,
                   clients, drained, launched, exclAtBegin, runSaved, killed,
                   startFailed, prevPass>>

\* a search that is content with one of the names
allFound_any(names, list) ==
    \E i \in 1..Len(names) :
        \E j \in 1..Len(list.types) : compare(names[i], list.types[j].descriptiveName) = 0

\* lines 156-169: true iff every name is the descriptiveName of some type
allFound(names, list) ==
    \A i \in 1..Len(names) :
        \E j \in 1..Len(list.types) : compare(names[i], list.types[j].descriptiveName) = 0

\* lines 155-170, with a callback given
AddPluginsCallback ==
    /\ pc["add"] = "callback"
    /\ ~crashed
    /\ lastResult' = IF allFound(scan["add"].include, m_pluginlist) THEN "true" ELSE "false"
    /\ pc' = [pc EXCEPT !["add"] = "idle"]
    /\ UNCHANGED <<diskVars, serverVars, scan, proc, netVars, query, histVars>>

\* the memory of a freshly started process
StartMemory ==
    /\ m_enableVST' = DefaultEnableVST
    /\ m_enableVST2' = DefaultEnableVST2
    /\ m_pluginexclude' = {}
    /\ m_pluginlist' = EmptyPluginList
    /\ pc' = [t \in Threads |-> IF t = "run" THEN "construct" ELSE "idle"]
    /\ scan' = [t \in Threads |-> NoScan]
    /\ proc' = [t \in Threads |-> NoProc]
    /\ lastResult' = "none"
    /\ m_masterSocket' = "none"
    /\ shouldExit' = FALSE
    /\ m_workers' = <<>>
    /\ running' = <<>>
    /\ asked' = {}
    /\ destroyed' = {}
    /\ deadWorkers' = {}
    /\ sd' = NoShutdown
    /\ crashed' = FALSE
    /\ query' = NoQuery
    /\ clients' = 0
    /\ drained' = {}
    /\ launched' = [t \in Threads |-> {}]
    /\ exclAtBegin' = [t \in Threads |-> {}]
    /\ runSaved' = {}
    /\ killed' = {}
    /\ startFailed' = [t \in Threads |-> {}]

(***************************************************************************)
(* The environment: the server process ends and is started again           *)
(***************************************************************************)
\* the startup scan and both saves of run() are done, and no probe of the pass
\* failed to start, died in the plugin or was killed
cleanPass ==
    /\ runSaved = {"config", "catalog"}
    /\ startFailed["run"] = {}
    /\ killed = {}
    /\ readLines(deadman) = <<>>

Restart ==
    /\ restarts < MaxRestarts
    /\ pc["run"] # "construct"
    /\ \A t \in Threads : proc[t].pc = "none"
    /\ restarts' = restarts + 1
    /\ prevPass' = IF cleanPass
                   THEN [complete |-> TRUE, list |-> m_pluginlist]
                   ELSE NoPrevPass
    /\ StartMemory
    /\ UNCHANGED <<diskVars, adds>>

(***************************************************************************)
(* Server::run after the startup scan, lines 288-312: listener, accept     *)
(* loop, lazy cleanup                                                      *)
(***************************************************************************)
\* a run() that enters the accept loop whatever createListener returned
afterCreateListener_alwaysLoop(ok) == "loop"

\* lines 289-291 and 310-312: the loop on success, the end of run() on failure
afterCreateListener(ok) == IF ok THEN "loop" ELSE "failed"

\* line 289; createListener may fail (the port is taken)
CreateListener ==
    /\ pc["run"] = "listen"
    /\ ~crashed
    /\ \/ /\ m_masterSocket' = "listening"
          /\ pc' = [pc EXCEPT !["run"] = afterCreateListener(TRUE)]
       \/ /\ pc' = [pc EXCEPT !["run"] = afterCreateListener(FALSE)]
          /\ UNCHANGED m_masterSocket
    /\ UNCHANGED <<diskVars, serverVars, scan, proc, lastResult, shouldExit, m_workers,
                   running, asked, deadWorkers, destroyed, sd, crashed, query, histVars>>

\* line 291
LoopCheck ==
    /\ pc["run"] = "loop"
    /\ ~crashed
    /\ pc' = [pc EXCEPT !["run"] = IF shouldExit THEN "done" ELSE "accept"]
    /\ UNCHANGED <<diskVars, serverVars, scan, proc, lastResult, netVars, query, histVars>>

\* line 292: waitForNextConnection returns a connection, or nullptr once the
\* socket was closed
Accept ==
    /\ pc["run"] = "accept"
    /\ ~crashed
    /\ \/ /\ m_masterSocket = "listening"
          /\ clients < MaxClients
          /\ clients' = clients + 1
          /\ pc' = [pc EXCEPT !["run"] = "register"]
       \/ /\ m_masterSocket = "closed"
          /\ pc' = [pc EXCEPT !["run"] = "loop"]
          /\ UNCHANGED clients
    /\ UNCHANGED <<diskVars, serverVars, scan, proc, lastResult, netVars, query, restarts,
                   adds, drained, launched, exclAtBegin, runSaved, killed,
                   startFailed, prevPass>>

shutdownIterating == sd.pc \in {"loop", "wait"}

\* lines 295-296: the new worker is appended and started; growing the vector may
\* move its storage, which leaves an iteration in progress with dangling iterators
Register ==
    /\ pc["run"] = "register"
    /\ ~crashed
    /\ m_workers' = Append(m_workers, Len(running) + 1)
    /\ running' = Append(running, TRUE)
    /\ pc' = [pc EXCEPT !["run"] = "sweep"]
    /\ \/ UNCHANGED sd
       \/ /\ shutdownIterating
          /\ ~sd.stale
          /\ sd' = [sd EXCEPT !.stale = TRUE]
    /\ UNCHANGED <<diskVars, serverVars, scan, proc, lastResult, m_masterSocket, shouldExit,
                   asked, deadWorkers, destroyed, crashed, query, histVars>>

\* a sweep that hands the finished workers over but erases nothing
keptWorkers_all(ws, run) == ws

\* the workers the sweep keeps: those observed running
keptWorkers(ws, run) == SelectSeq(ws, LAMBDA w : run[w])

\* lines 298-307: finished workers move to a list that a callAsync task clears
\* line 302 drops the iterator erase() returns and goes on with the erased one:
\* a build with checked iterators stops the process there, any other build finds
\* the next element at the same position
Sweep ==
    /\ pc["run"] = "sweep"
    /\ ~crashed
    /\ LET dead == {w \in seqToSet(m_workers) : ~running[w]}
       IN \/ /\ m_workers' = keptWorkers(m_workers, running)
             /\ deadWorkers' = IF dead = {} THEN deadWorkers ELSE deadWorkers \cup {dead}
             /\ pc' = [pc EXCEPT !["run"] = "loop"]
             /\ UNCHANGED crashed
          \/ /\ dead # {}
             /\ crashed' = TRUE
             /\ UNCHANGED <<m_workers, deadWorkers, pc>>
    /\ UNCHANGED <<diskVars, serverVars, scan, proc, lastResult, m_masterSocket, shouldExit,
                   running, asked, destroyed, sd, query, histVars>>

\* the message thread runs the task: deadWorkers->clear() destroys the workers
AsyncClear(list) ==
    /\ list \in deadWorkers
    /\ ~crashed
    /\ deadWorkers' = deadWorkers \ {list}
    /\ destroyed' = destroyed \cup list
    /\ UNCHANGED <<diskVars, serverVars, scanVars, m_masterSocket, shouldExit, m_workers,
                   running, asked, sd, crashed, query, histVars>>

\* a worker's thread ends: its client went away, or it was asked to shut down
WorkerExit(w) ==
    /\ w \in 1..Len(running)
    /\ running[w]
    /\ ~crashed
    /\ running' = [running EXCEPT ![w] = FALSE]
    /\ UNCHANGED <<diskVars, serverVars, scanVars, m_masterSocket, shouldExit, m_workers,
                   asked, deadWorkers, destroyed, sd, crashed, query, histVars>>

(***************************************************************************)
(* Server::shutdown, lines 114-122, called from another thread             *)
(***************************************************************************)
\* line 115 and the start of the range-for: begin and end are taken once
Shutdown ==
    /\ sd.pc = "idle"
    /\ pc["run"] # "construct"
    /\ ~crashed
    /\ m_masterSocket' = "closed"
    /\ sd' = [pc |-> "loop", i |-> 1, end |-> Len(m_workers), w |-> 0, stale |-> FALSE]
    /\ UNCHANGED <<diskVars, serverVars, scanVars, shouldExit, m_workers, running, asked,
                   deadWorkers, destroyed, crashed, query, histVars>>

\* lines 116-118: the next element, by position; a position past the elements, or
\* any position of storage that was moved, is an invalid access
ShutdownWorker ==
    /\ sd.pc = "loop"
    /\ sd.i <= sd.end
    /\ ~crashed
    /\ IF sd.stale \/ sd.i > Len(m_workers)
       THEN /\ crashed' = TRUE
            /\ UNCHANGED <<asked, sd>>
       ELSE /\ asked' = asked \cup {m_workers[sd.i]}
            /\ sd' = [sd EXCEPT !.pc = "wait", !.w = m_workers[sd.i]]
            /\ UNCHANGED crashed
    /\ UNCHANGED <<diskVars, serverVars, scanVars, m_masterSocket, shouldExit, m_workers,
                   running, deadWorkers, destroyed, query, histVars>>

\* line 119: waitForThreadToExit(-1) returns once the worker is not running
ShutdownWaited ==
    /\ sd.pc = "wait"
    /\ ~crashed
    /\ ~running[sd.w]
    /\ sd' = [sd EXCEPT !.pc = "loop", !.i = @ + 1]
    /\ UNCHANGED <<diskVars, serverVars, scanVars, m_masterSocket, shouldExit, m_workers,
                   running, asked, deadWorkers, destroyed, crashed, query, histVars>>

\* line 121, after the last element
ShutdownDone ==
    /\ sd.pc = "loop"
    /\ sd.i > sd.end
    /\ ~crashed
    /\ shouldExit' = TRUE
    /\ sd' = [sd EXCEPT !.pc = "done"]
    /\ UNCHANGED <<diskVars, serverVars, scanVars, m_masterSocket, m_workers, running,
                   asked, deadWorkers, destroyed, crashed, query, histVars>>

(***************************************************************************)
(* a shouldExclude call from outside a scan (the query the server exposes) *)
(***************************************************************************)
ShouldExcludeCall(name, include) ==
    /\ ~query.made
    /\ query' = [made |-> TRUE, name |-> name, include |-> include,
                 result |-> shouldExclude(name, include, m_pluginexclude)]
    /\ UNCHANGED <<diskVars, serverVars, scanVars, netVars, histVars>>

ScanStep(t) ==
    \/ ScanBegin(t)
    \/ ScanCandidate(t)
    \/ ProbeFinished(t)
    \/ ProbeTimeout(t)
    \/ ScanEnd(t)
    \/ SaveConfig(t)
    \/ SaveKnownPluginList(t)

ChildStep(t) ==
    \/ ChildLoad(t)
    \/ ChildPedal(t)
    \/ \E o \in ProbeOutcomes : ChildProbe(t, o)
    \/ ChildSave(t)
    \/ ChildExit(t)

(***************************************************************************)
(* Specifications                                                          *)
(***************************************************************************)
\* one server process after another, each with its startup scan
Next ==
    \/ LoadConfig
    \/ ScanStep("run")
    \/ ChildStep("run")
    \/ Restart

Spec == Init /\ [][Next]_vars

\* one process lifetime with addPlugins requests beside the server thread
InitAdd ==
    /\ cfgFile \in {configJson(TRUE, TRUE, {nReverb, nOld}),
                    configJson(FALSE, TRUE, {nReverb, nOld})}
    /\ knownFile \in BasicCatalogs
    /\ deadman = NoFile
    /\ restarts = 0
    /\ prevPass = NoPrevPass
    /\ InitMemory

NextAdd ==
    \/ LoadConfig
    \/ \E t \in Threads : ScanStep(t)
    \/ \E t \in Threads : ChildStep(t)
    \/ \E names \in IncludeChoices : AddPlugins(names)
    \/ AddPluginsCallback

SpecAdd == InitAdd /\ [][NextAdd]_vars

\* one process lifetime from its start to the accept loop and shutdown
InitServe ==
    /\ cfgFile = configJson(TRUE, FALSE, {})
    /\ knownFile \in {NoFile, knownPluginsXml([types |-> <<staleReverb>>, blacklist |-> {}])}
    /\ deadman = NoFile
    /\ restarts = 0
    /\ prevPass = NoPrevPass
    /\ InitMemory

NextServe ==
    \/ LoadConfig
    \/ ScanStep("run")
    \/ ChildStep("run")
    \/ CreateListener
    \/ LoopCheck
    \/ Accept
    \/ Register
    \/ Sweep
    \/ \E list \in deadWorkers : AsyncClear(list)
    \/ \E w \in 1..MaxClients : WorkerExit(w)
    \/ Shutdown
    \/ ShutdownWorker
    \/ ShutdownWaited
    \/ ShutdownDone

SpecServe == InitServe /\ [][NextServe]_vars

\* a server that is up, or coming up, when plugins are added by name: the catalog
\* describes Reverb, Delay is on the exclusion list and not yet described
InitBackground ==
    /\ cfgFile = configJson(TRUE, TRUE, {nDelay})
    /\ knownFile = knownPluginsXml(addType(EmptyPluginList,
                                           describePlugin(fReverb, "VST3", fileModTime)))
    /\ deadman = NoFile
    /\ restarts = 0
    /\ prevPass = NoPrevPass
    /\ InitMemory

NextBackground ==
    \/ LoadConfig
    \/ \E t \in Threads : ScanStep(t)
    \/ \E t \in Threads : ChildStep(t)
    \/ \E names \in IncludeChoices : AddPlugins(names)
    \/ AddPluginsCallback
    \/ CreateListener
    \/ LoopCheck
    \/ Accept
    \/ Register
    \/ Sweep

\* the detached thread of addPlugins and the probe children it waits for (at most
\* 30 s each) are scheduled by the operating system
FairBackground ==
    WF_vars(ScanStep("add") \/ ChildStep("add") \/ AddPluginsCallback)

SpecBackground == InitBackground /\ [][NextBackground]_vars /\ FairBackground

\* shouldExclude on its own: names, include-lists and exclusion sets
QueryNames == {nReverb, nreverb, nDelay, nAgridderFx, nMyAudioGridder, nGridder, AGridder}

QueryIncludes ==
    {<<>>} \cup {<<a>> : a \in QueryNames} \cup {<<a, b>> : a \in QueryNames, b \in QueryNames}

InitExclude ==
    /\ cfgFile = NoFile
    /\ knownFile = NoFile
    /\ deadman = NoFile
    /\ restarts = 0
    /\ prevPass = NoPrevPass
    /\ m_enableVST = DefaultEnableVST
    /\ m_enableVST2 = DefaultEnableVST2
    /\ m_pluginexclude \in SUBSET {nReverb, nDelay, nAgridderFx}
    /\ m_pluginlist = EmptyPluginList
    /\ pc = [t \in Threads |-> IF t = "run" THEN "scan_begin" ELSE "idle"]
    /\ scan = [t \in Threads |-> NoScan]
    /\ proc = [t \in Threads |-> NoProc]
    /\ lastResult = "none"
    /\ m_masterSocket = "none"
    /\ shouldExit = FALSE
    /\ m_workers = <<>>
    /\ running = <<>>
    /\ asked = {}
    /\ destroyed = {}
    /\ deadWorkers = {}
    /\ sd = NoShutdown
    /\ crashed = FALSE
    /\ query = NoQuery
    /\ adds = 0
    /\ clients = 0
    /\ drained = {}
    /\ launched = [t \in Threads |-> {}]
    /\ exclAtBegin = [t \in Threads |-> {}]
    /\ runSaved = {}
    /\ killed = {}
    /\ startFailed = [t \in Threads |-> {}]

NextExclude ==
    \E name \in QueryNames, include \in QueryIncludes : ShouldExcludeCall(name, include)

SpecExclude == InitExclude /\ [][NextExclude]_vars

(***************************************************************************)
(* Properties                                                              *)
(***************************************************************************)
blacklistOnDisk == IF knownFile.exists THEN knownFile.blacklist ELSE {}

scanInProgress(t) == pc[t] \in {"scan_loop", "wait", "scan_end"}

\* C1: when loadConfig has finished (the server thread has not yet begun to scan),
\* every identifier that was in the dead-man's file is in the blacklist of
\* m_pluginlist and the dead-man's file is gone
C1_SentinelRecovery ==
    pc["run"] = "scan_begin" =>
        /\ drained \subseteq m_pluginlist.blacklist
        /\ ~deadman.exists

C1_Witness ==
    /\ pc["run"] = "scan_begin"
    /\ drained = {fDelay, fReverb}
    /\ {fDelay, fReverb} \subseteq m_pluginlist.blacklist
    /\ ~deadman.exists

\* C2: the startup scan never launches a probe child for an identifier that
\* loadConfig found in the dead-man's file
C2_DrainedNeverProbed == launched["run"] \cap drained = {}

\* C3: once the drain is done, the catalog file holds every drained identifier in
\* its blacklist (so that a crash right after the drain loses nothing)
C3_DrainDurable == pc["run"] # "construct" => drained \subseteq blacklistOnDisk

\* C4: at most one scanForPlugins execution is in progress at any time
C4_SingleScan == Cardinality({t \in Threads : scanInProgress(t)}) <= 1

\* C5 as stated: with a non-empty include-list, shouldExclude is false exactly
\* when the name is an entry of the list
C5_ExclusionPrecedence ==
    (query.made /\ Len(query.include) > 0) =>
        (query.result = FALSE <=> query.name \in seqToSet(query.include))

\* C5 amended: the same, for names that contain neither "AGridder" nor
\* "AudioGridder" in any letter case; a name that does is excluded even when listed
C5_ExclusionPrecedenceAmended ==
    (query.made /\ Len(query.include) > 0) =>
        IF isHostName(query.name)
        THEN query.result = TRUE
        ELSE (query.result = FALSE <=> query.name \in seqToSet(query.include))

C5_Witness ==
    /\ query.made
    /\ query.name = nReverb
    /\ query.include = <<nreverb, nReverb>>
    /\ nReverb \in m_pluginexclude
    /\ query.result = FALSE

\* C6: a name containing "AGridder" or "AudioGridder", in any letter case, is
\* excluded under every include-list (empty, or naming it) and every exclusion
\* set, and no scan launches a probe for an identifier with such a name
C6_SelfExclusion ==
    /\ \A n \in {nAgridderFx, nMyAudioGridder, AGridder} :
          \A L \in IncludeChoices \cup {<<>>, <<n>>} :
              shouldExclude(n, L, m_pluginexclude)
    /\ \A t \in Threads : fHost \notin launched[t]

C6_Witness ==
    /\ pc["add"] = "callback"
    /\ scan["add"].include = <<nAgridderFx, nReverb>>
    /\ launched["add"] = {fReverb}

\* C7: after a scan pass, a name that was in the exclusion set when the pass began
\* is still in it if an enabled driver enumerated a plugin of that name (probed or
\* skipped), and is no longer in it otherwise
C7_StalePruning ==
    \A t \in Threads :
        pc[t] \in {"save_config", "save_list"} =>
            \A n \in exclAtBegin[t] :
                n \in m_pluginexclude <=>
                    \E f \in FileSet :
                        /\ f.file = n
                        /\ \/ (f.ext = "vst3" /\ m_enableVST)
                           \/ (f.ext = "dll" /\ m_enableVST2)

C7_Witness ==
    /\ pc["add"] = "save_config"
    /\ exclAtBegin["add"] = {nReverb, nOld}
    /\ m_pluginexclude = {nReverb}
    /\ launched["add"] = {fDelay}

C9_ShutdownDrain ==
    sd.pc = "done" =>
        /\ m_masterSocket = "closed"
        /\ \A i \in 1..Len(m_workers) :
              m_workers[i] \in asked /\ ~running[m_workers[i]]

\* C10: the listener exists, and a worker exists, only after the startup scan has
\* finished and run() has saved the config and the catalog
C10_ScanBeforeListen ==
    (m_masterSocket = "listening" \/ Len(running) > 0) =>
        /\ pc["run"] \notin {"construct", "scan_begin", "scan_loop", "wait", "scan_end",
                             "save_config", "save_list"}
        /\ proc["run"].pc = "none"
        /\ runSaved = {"config", "catalog"}

C10_Witness ==
    /\ Len(running) > 0
    /\ m_masterSocket = "listening"
    /\ launched["run"] = {fReverb}
    /\ runSaved = {"config", "catalog"}

\* C11: an identifier in the blacklist stays there: no step of a process takes an
\* identifier out of the blacklist of m_pluginlist, and no step, a restart
\* included, takes one out of the blacklist in the catalog file
C11_BlacklistSticky ==
    [][/\ restarts' = restarts =>
             m_pluginlist.blacklist \subseteq m_pluginlist'.blacklist
       /\ blacklistOnDisk \subseteq blacklistOnDisk']_vars

\* C12: no identifier is both the identifier of a descriptor and a member of the
\* blacklist, neither in m_pluginlist nor in the catalog file
C12_CatalogBlacklistDisjoint ==
    /\ \A i \in 1..Len(m_pluginlist.types) :
          m_pluginlist.types[i].fileOrIdentifier \notin m_pluginlist.blacklist
    /\ knownFile.exists =>
          \A i \in 1..Len(knownFile.types) :
              knownFile.types[i].fileOrIdentifier \notin knownFile.blacklist

\* the catalog has settled the identifier: an up-to-date descriptor, or a blacklist entry
settled(list, id) ==
    \/ id \in list.blacklist
    \/ /\ hasTypeForFile(list, id)
       /\ ~pluginNeedsRescanning(getTypeForFile(list, id), fileModTime)

\* C13: when a process whose startup pass ended cleanly is followed by a second
\* process whose startup pass has ended cleanly too, the catalog after the second
\* pass is the catalog after the first, and the second pass probed no identifier
\* the first catalog had settled
C13_IdempotentRescan ==
    (/\ prevPass.complete
     /\ pc["run"] \in {"save_config", "save_list", "listen"}
     /\ startFailed["run"] = {}
     /\ killed = {}
     /\ readLines(deadman) = <<>>) =>
        /\ m_pluginlist = prevPass.list
        /\ \A id \in launched["run"] : ~settled(prevPass.list, id)

\* C14: the callback of an addPlugins call is not invoked while the background
\* scan or its two saves are still to be done; it is invoked from the position
\* after the saves, once, with true exactly when every requested name is the
\* descriptive name of a descriptor in m_pluginlist; and every call gets there
C14_AddPluginsCompletion ==
    /\ [](pc["add"] # "idle" => lastResult = "none")
    /\ [][(lastResult = "none" /\ lastResult' # "none") =>
             /\ pc["add"] = "callback"
             /\ pc'["add"] = "idle"
             /\ (lastResult' = "true") <=>
                  (seqToSet(scan["add"].include) \subseteq
                     {m_pluginlist.types[j].descriptiveName :
                         j \in 1..Len(m_pluginlist.types)})]_vars
    /\ [][(lastResult # "none" /\ lastResult' # lastResult) =>
             (lastResult' = "none" /\ adds' = adds + 1)]_vars
    /\ (pc["add"] = "scan_begin") ~> (pc["add"] = "idle" /\ lastResult \in {"true", "false"})

C14_Witness ==
    /\ lastResult = "true"
    /\ scan["add"].include = <<nDelay>>
    /\ launched["add"] = {fDelay}
    /\ Len(m_workers) > 0

\* C15: when createListener has failed, run() is over: no connection was accepted,
\* no worker was created and the registry is empty; and the server thread is in
\* its accept loop only when the listener had been created
C15_ListenerFailure ==
    /\ pc["run"] = "failed" =>
          /\ clients = 0
          /\ m_workers = <<>>
          /\ running = <<>>
    /\ pc["run"] \in {"loop", "accept", "register", "sweep"} => m_masterSocket # "none"

C15_Witness ==
    /\ pc["run"] = "failed"
    /\ m_masterSocket = "none"
    /\ runSaved = {"config", "catalog"}
    /\ m_workers = <<>>

\* C16: a probe child has written its identifier to the dead-man's file before it
\* loads the binary, a child that died in the plugin leaves it there, and a
\* process started after that never probes an identifier it drained from the file
C16_CrashContained ==
    /\ \A t \in Threads :
          (\/ proc[t].pc \in {"probe", "hung"}
           \/ (proc[t].pc = "exited" /\ proc[t].exitCode = 139)) =>
              proc[t].id \in seqToSet(readLines(deadman))
    /\ restarts > 0 => drained \cap launched["run"] = {}

\* C17: at most one probe child is running at any time, and the dead-man's file
\* never holds the identifiers of two probes in flight
C17_SerializedProbes ==
    /\ Cardinality({t \in Threads : procRunning(proc[t])}) <= 1
    /\ Cardinality({t \in Threads :
                       /\ proc[t].pc \in {"probe", "hung"}
                       /\ proc[t].id \in seqToSet(readLines(deadman))}) <= 1

\* the pending-destruction lists that hold worker w
pendingListsOf(w) == {list \in deadWorkers : w \in list}

\* C18: every worker created so far is in exactly one place: once in the registry,
\* or in exactly one list handed to a deferred task, or destroyed; a sweep keeps
\* exactly the workers it saw running and hands each other one to one such list
\* without destroying it; and workers are destroyed only by a deferred task, which
\* destroys one pending list, never by a step of the accept thread
C18_LazyReaping ==
    /\ [](\A w \in 1..Len(running) :
             /\ Cardinality({i \in 1..Len(m_workers) : m_workers[i] = w})
                  + Cardinality(pendingListsOf(w))
                  + (IF w \in destroyed THEN 1 ELSE 0) = 1)
    /\ [][(pc["run"] = "sweep" /\ pc'["run"] = "loop") =>
             /\ seqToSet(m_workers') = {w \in seqToSet(m_workers) : running[w]}
             /\ \A w \in seqToSet(m_workers) :
                   ~running[w] =>
                       /\ \E list \in deadWorkers' \ deadWorkers : w \in list
                       /\ w \notin destroyed'
             /\ destroyed' = destroyed]_vars
    /\ [][destroyed' # destroyed =>
             /\ pc' = pc
             /\ m_workers' = m_workers
             /\ \E list \in deadWorkers :
                   /\ destroyed' = destroyed \cup list
                   /\ list \cap destroyed = {}
                   /\ deadWorkers' = deadWorkers \ {list}]_vars

C18_Witness ==
    /\ pc["run"] = "loop"
    /\ running = <<FALSE, TRUE>>
    /\ m_workers = <<2>>
    /\ deadWorkers = {{1}}
    /\ destroyed = {}

\* C19: when a scan pass decides on a discovered identifier, scanNextPlugin is
\* called for it (a child is started, or the start fails) if and only if the
\* catalog has no descriptor for it or one that needs rescanning, the identifier
\* is not blacklisted and shouldExclude(name, include) is false; otherwise it is
\* skipped: no child is started and the pass is at the next candidate
C19_ProbeDecision ==
    [][\A t \in Threads :
          (pc[t] = "scan_loop" /\ <<pc'[t], scan'[t]>> # <<pc[t], scan[t]>>) =>
             LET id   == searchPathsForPlugins(scan[t].fmts[scan[t].fi])[scan[t].ii]
                 desc == {m_pluginlist.types[i] : i \in 1..Len(m_pluginlist.types)}
                 rule == /\ \A d \in desc :
                               d.fileOrIdentifier = id =>
                                   d.lastFileModTime # fileModTime[id]
                         /\ id \notin m_pluginlist.blacklist
                         /\ ~shouldExclude(id.file, scan[t].include, m_pluginexclude)
             IN /\ rule <=> id \in launched'[t] \cup startFailed'[t]
                /\ id \in launched'[t] <=> (proc'[t].pc = "load" /\ proc'[t].id = id)
                /\ id \notin launched'[t] =>
                      /\ proc'[t] = proc[t]
                      /\ <<scan'[t].fi, scan'[t].ii>> # <<scan[t].fi, scan[t].ii>>]_vars

C19_Witness ==
    /\ pc["add"] = "scan_end"
    /\ scan["add"].include = <<nDelay>>
    /\ fDelay \in m_pluginlist.blacklist
    /\ launched["add"] = {}
    /\ startFailed["add"] = {}
    /\ launched["run"] = {fDelay}

\* C20: with no plugin format enabled, the startup scan starts no probe child and
\* visits no candidate; when it has finished, the catalog in memory is the
\* catalog file's content in alphabetical order, every name that was in the
\* exclusion set before the pass is gone and the exclusion set is empty; and no
\* step after loadConfig ever adds a name to the exclusion set
C20_EmptyFormatScan ==
    /\ []((~m_enableVST /\ ~m_enableVST2 /\ pc["run"] # "construct") =>
            /\ pc["run"] \notin {"scan_loop", "wait"}
            /\ proc["run"].pc = "none"
            /\ launched["run"] = {}
            /\ startFailed["run"] = {}
            /\ killed = {})
    /\ []((~m_enableVST /\ ~m_enableVST2 /\ pc["run"] \in {"save_config", "save_list"}) =>
            /\ m_pluginexclude \cap exclAtBegin["run"] = {}
            /\ m_pluginexclude = {}
            /\ isSorted(m_pluginlist.types)
            /\ knownFile.exists =>
                  /\ seqToSet(m_pluginlist.types) = seqToSet(knownFile.types)
                  /\ Len(m_pluginlist.types) = Len(knownFile.types)
                  /\ m_pluginlist.blacklist = knownFile.blacklist)
    /\ [][pc["run"] # "construct" => m_pluginexclude' \subseteq m_pluginexclude]_vars

C20_Witness ==
    /\ ~m_enableVST /\ ~m_enableVST2
    /\ pc["run"] = "save_config"
    /\ exclAtBegin["run"] = {nReverb, nOld}
    /\ m_pluginexclude = {}
    /\ Len(m_pluginlist.types) = 2
    /\ m_pluginlist.types # recreateFromXml(knownFile).types
    /\ launched["run"] = {}

====
